---- MODULE Spec2Model ----
(***************************************************************************)
(* Verification model of the Archon document ingestion pipeline.           *)
(*                                                                         *)
(* Components modelled (each with its own specification):                  *)
(*   SpecDetect  - detect_pdf_type (document_processing.py)                *)
(*   SpecDoc     - extract_text_from_document and its engine fallbacks     *)
(*   SpecAgent   - ImageProcessingAgent.process_document                   *)
(*   SpecExtract - POST /extract-structured of the MinerU service          *)
(*   SpecEnrich  - ImageContentProcessor.process_all_images_for_source     *)
(*   SpecProcess - POST /process of the MinerU service                     *)
(*   SpecStore   - ImageStorageService.upload_image                        *)
(*   SpecChart   - ChartExtractionService.extract_chart_data               *)
(*   SpecFormulas - process_formulas of the parser service                 *)
(*   SpecClient  - MinerUHttpClient.process_pdf                            *)
(***************************************************************************)
EXTENDS Integers, Sequences, FiniteSets, TLC

VARIABLES
    d_pc,       \* position inside extract_text_from_document
    d_in,       \* the call's arguments (content type, filename suffix, flags, size, PDF)
    d_calls,    \* engines invoked so far, in order, each with its outcome
    d_type,     \* value returned by detect_pdf_type ("none" before it ran)
    d_result,   \* what the call has returned or raised ("none" while running)
    a_pc,       \* position inside ImageProcessingAgent.process_document
    a_in,       \* its arguments: analyze_images, whether a progress callback is given
    a_mineru,   \* outcome of mineru_service.process_pdf ("none" before the call)
    a_events,   \* progress events handed to the callback, in order
    a_images,   \* extracted_images with their enrichment fields
    a_vision,   \* vision (Ollama) requests made so far, in order, with their outcome
    a_idx,      \* index of the next image of the analysis loop
    a_cbRaised, \* whether some callback invocation has raised
    a_result,   \* what process_document has returned or raised
    x_pc,       \* /extract-structured: idle, received, responded
    x_env,      \* API keys in the environment and the loaded template registry
    x_req,      \* the ExtractRequest being handled
    x_resp,     \* the handler's response (or the exception that left it)
    x_trace,    \* template lookups and provider calls made for the request
    e_pc,       \* image enrichment: ready, loop (off in the other specifications)
    e_idx,      \* position of the loop over the images
    e_inflight, \* images whose process_image_content call is running
    e_records,  \* the archon_document_images rows of the source, by position
    e_before,   \* the rows as they were when the last run started
    e_calls,    \* per image, the calls the last run made
    e_run,      \* number, force_refresh and status of the last run
    p_pc,       \* /process: idle, embedded, regions, responded
    p_mineru,   \* what doc_analyze returned: embedded images, pages, document
    p_idx,      \* position in the embedded image list
    p_page,     \* page_idx of the layout loops
    p_det,      \* detections visited on the current page
    p_region_idx, \* region_idx, the running index of extracted regions
    p_images,   \* image_data_list
    p_counts,   \* image_count, table_count, formula_count; entries skipped
    p_resp,     \* the response of /process
    s_pc,       \* image storage: ready (off in the other specifications)
    s_calls,    \* upload_image calls made so far
    s_blobs,    \* the document-images bucket: path and content of each blob
    s_records,  \* the rows of archon_document_images
    s_last,     \* arguments and result of the last upload_image call
    c_pc,       \* extract_chart_data: start, fallback, done (off elsewhere)
    c_in,       \* the provider asked for and what is available
    c_calls,    \* provider extractions made so far, in order, with their outcome
    c_result,   \* the pair extract_chart_data returned
    f_pc,       \* process_formulas: gather, returned (off elsewhere)
    f_images,   \* formula_images
    f_tasks,    \* per image, the state of its process_one task and its result
    f_results,  \* latex_results as returned
    m_pc,       \* MinerUHttpClient.process_pdf: call, replied, returned
    m_reply,    \* what the POST to the service came to
    m_ret       \* the pair process_pdf returned

docVars == <<d_pc, d_in, d_calls, d_type, d_result>>
agentVars == <<a_pc, a_in, a_mineru, a_events, a_images, a_vision, a_idx, a_cbRaised, a_result>>

extractVars == <<x_pc, x_env, x_req, x_resp, x_trace>>

enrichVars == <<e_pc, e_idx, e_inflight, e_records, e_before, e_calls, e_run>>

processVars == <<p_pc, p_mineru, p_idx, p_page, p_det, p_region_idx, p_images,
                 p_counts, p_resp>>

storeVars == <<s_pc, s_calls, s_blobs, s_records, s_last>>

chartVars == <<c_pc, c_in, c_calls, c_result>>

formulaVars == <<f_pc, f_images, f_tasks, f_results>>

clientVars == <<m_pc, m_reply, m_ret>>

vars == <<docVars, agentVars, extractVars, enrichVars, processVars, storeVars,
          chartVars, formulaVars, clientVars>>

\* What each component's actions leave alone.
notDoc ==
    <<agentVars, extractVars, enrichVars, processVars, storeVars,
      chartVars, formulaVars, clientVars>>
notAgent ==
    <<docVars, extractVars, enrichVars, processVars, storeVars,
      chartVars, formulaVars, clientVars>>
notExtract ==
    <<docVars, agentVars, enrichVars, processVars, storeVars,
      chartVars, formulaVars, clientVars>>
notEnrich ==
    <<docVars, agentVars, extractVars, processVars, storeVars,
      chartVars, formulaVars, clientVars>>
notProcess ==
    <<docVars, agentVars, extractVars, enrichVars, storeVars,
      chartVars, formulaVars, clientVars>>
notStore ==
    <<docVars, agentVars, extractVars, enrichVars, processVars,
      chartVars, formulaVars, clientVars>>
notChart ==
    <<docVars, agentVars, extractVars, enrichVars, processVars,
      storeVars, formulaVars, clientVars>>
notFormulas ==
    <<docVars, agentVars, extractVars, enrichVars, processVars,
      storeVars, chartVars, clientVars>>
notClient ==
    <<docVars, agentVars, extractVars, enrichVars, processVars,
      storeVars, chartVars, formulaVars>>

NULL == "null"

(***************************************************************************)
(* detect_pdf_type                                                         *)
(***************************************************************************)

\* Bound: pages a PDF may have beyond the sampled ones.
MaxExtraPages == 1

\* Pages sampled by detect_pdf_type: min(3, len(doc)).
SamplePages == 3

Min(a, b) == IF a < b THEN a ELSE b

\* A page as detect_pdf_type sees it: len(page.get_text().strip()) and
\* len(page.get_images()).
PageChars == {0, 1, 500, 3000, 8000}
PageImages == {0, 1, 3}
Pages == [chars : PageChars, images : PageImages]

\* Pages past the sample; heavy or empty, so that reading them would show.
TailPages == {[chars |-> 8000, images |-> 3], [chars |-> 0, images |-> 0]}

PageSeqs ==
    UNION {[1..n -> Pages] : n \in 0..(SamplePages + MaxExtraPages)}

\* A PDF: either fitz.open raises (ok = FALSE) or it has a sequence of pages.
Docs ==
    {[ok |-> FALSE, pages |-> <<>>]} \cup
    {[ok |-> TRUE, pages |-> p] : p \in
        {q \in PageSeqs : \A k \in DOMAIN q : k > SamplePages => q[k] \in TailPages}}

RECURSIVE SumChars(_, _)
SumChars(pages, n) ==
    IF n = 0 THEN 0 ELSE SumChars(pages, n - 1) + pages[n].chars

RECURSIVE SumImages(_, _)
SumImages(pages, n) ==
    IF n = 0 THEN 0 ELSE SumImages(pages, n - 1) + pages[n].images

\* The classification of lines 211-241 on the totals of the sampled pages.
ClassifyMutant(total_text_chars, total_image_count, sample_pages) ==
    IF total_text_chars > 8000 THEN "text_based"
    ELSE IF total_text_chars > 3000
         THEN IF total_image_count > sample_pages * 2 THEN "mixed" ELSE "text_based"
    ELSE IF total_text_chars >= 500
         THEN IF total_image_count > sample_pages THEN "mixed" ELSE "text_based"
    ELSE IF total_image_count > 0 THEN "scanned"
    ELSE "unknown"

Classify(total_text_chars, total_image_count, sample_pages) ==
    IF total_text_chars > 8000 THEN "text_based"
    ELSE IF total_text_chars > 3000
         THEN IF total_image_count > sample_pages * 2 THEN "mixed" ELSE "text_based"
    ELSE IF total_text_chars > 500
         THEN IF total_image_count > sample_pages THEN "mixed" ELSE "text_based"
    ELSE IF total_image_count > 0 THEN "scanned"
    ELSE "unknown"

detect_pdf_type(doc) ==
    IF ~doc.ok THEN "unknown"                  \* except Exception: return "unknown"
    ELSE IF Len(doc.pages) = 0 THEN "unknown"  \* len(doc) == 0
    ELSE LET sample_pages == Min(SamplePages, Len(doc.pages))
         IN  Classify(SumChars(doc.pages, sample_pages),
                      SumImages(doc.pages, sample_pages),
                      sample_pages)

(***************************************************************************)
(* extract_text_from_document                                              *)
(***************************************************************************)

CTypes == {"image/png", "application/pdf", "application/msword",
           "text/html", "text/plain", "application/octet-stream"}
Exts == {".png", ".pdf", ".docx", ".html", ".md", ".bin"}

\* File sizes in MB around the two gates of the PDF branch (5 and 100).
Sizes == {4, 5, 99, 100}
ParserMaxMB == 100
SmallScanMB == 5

\* PDFs used when the whole call is explored: one of each detected type.
RoutingDocs ==
    { [ok |-> FALSE, pages |-> <<>>],
      [ok |-> TRUE, pages |-> <<>>],
      [ok |-> TRUE, pages |-> <<[chars |-> 8000, images |-> 3], [chars |-> 1, images |-> 0]>>],
      [ok |-> TRUE, pages |-> <<[chars |-> 0, images |-> 1]>>],
      [ok |-> TRUE, pages |-> <<[chars |-> 500, images |-> 3], [chars |-> 1, images |-> 0]>>],
      [ok |-> TRUE, pages |-> <<[chars |-> 1, images |-> 0]>>] }

IsImage(in) == in.ctype = "image/png" \/ in.ext = ".png"
IsPdf(in) == in.ctype = "application/pdf" \/ in.ext = ".pdf"
IsWord(in) == in.ctype = "application/msword" \/ in.ext = ".docx"
IsHtml(in) == in.ctype = "text/html" \/ in.ext = ".html"
IsText(in) == in.ctype \in {"text/html", "text/plain"} \/ in.ext = ".md"

\* The branch taken at lines 445-577.
RouteOf(in) ==
    IF in.use_ocr /\ IsImage(in) THEN "image"
    ELSE IF IsPdf(in) THEN "pdf"
    ELSE IF IsWord(in) THEN "word"
    ELSE IF IsHtml(in) THEN "html"
    ELSE IF IsText(in) THEN "text"
    ELSE "unsupported"

DocInputs ==
    {in \in [ctype : CTypes, ext : Exts, use_ocr : BOOLEAN, use_mineru : BOOLEAN,
             sizeMB : Sizes, doc : RoutingDocs, blank : BOOLEAN] :
        /\ RouteOf(in) # "pdf" =>
              in.sizeMB = 4 /\ in.doc = [ok |-> FALSE, pages |-> <<>>] /\ ~in.use_mineru
        /\ RouteOf(in) \notin {"html", "text"} => ~in.blank}

NoResult == [status |-> "none", engine |-> NULL, shape |-> NULL, images |-> NULL, exc |-> NULL]

Returned(engine, shape, images) ==
    [status |-> "ok", engine |-> engine, shape |-> shape, images |-> images, exc |-> NULL]

Raised(engine, exc) ==
    [status |-> "raised", engine |-> engine, shape |-> NULL, images |-> NULL, exc |-> exc]

\* Where the PDF branch goes once MinerU is skipped or has failed (lines 470-545).
AfterMinerUMutant(in) ==
    IF in.sizeMB < ParserMaxMB THEN "parser" ELSE "detect"

AfterMinerU(in) ==
    IF in.use_ocr
    THEN IF in.sizeMB < ParserMaxMB THEN "parser" ELSE "detect"
    ELSE "pymupdf"

\* Legacy OCR selection by PDF type and size (lines 496-541).
AfterDetect(pdf_type, in) ==
    IF pdf_type = "text_based" THEN "pymupdf"
    ELSE IF pdf_type = "scanned"
         THEN IF in.sizeMB < SmallScanMB THEN "ocr_ocrmypdf" ELSE "tess_first"
    ELSE "ocr_ocrmypdf"

\* What follows an engine's failure: the next position, or "raise" when the
\* exception leaves extract_text_from_document.
OnEngineFailMutant(pc, in) ==
    CASE pc = "mineru" -> AfterMinerU(in)
      [] pc = "parser" -> "detect"
      [] pc = "ocr_ocrmypdf" -> "ocr_tesseract"
      [] pc = "ocr_tesseract" -> "raise"
      [] pc = "tess_first" -> "tess_then_ocrmypdf"
      [] pc = "tess_then_ocrmypdf" -> "pymupdf"
      [] OTHER -> "raise"

OnEngineFail(pc, in) ==
    CASE pc = "mineru" -> AfterMinerU(in)                 \* lines 464-468
      [] pc = "parser" -> "detect"                        \* lines 480-484
      [] pc = "ocr_ocrmypdf" -> "ocr_tesseract"           \* lines 1015-1021
      [] pc = "ocr_tesseract" -> "pymupdf"                \* lines 1022-1030, 510-515, 536-541
      [] pc = "tess_first" -> "tess_then_ocrmypdf"        \* lines 522-525
      [] pc = "tess_then_ocrmypdf" -> "pymupdf"           \* lines 527-529
      [] OTHER -> "raise"                                 \* lines 582-590

\* One engine invocation at position pc: it returns (the call returns its
\* result) or raises (the code moves on as OnEngineFail says).
Invoke(engine, shape, imagesOnOk) ==
    \E ok \in BOOLEAN :
        /\ d_calls' = Append(d_calls, [engine |-> engine, ok |-> ok])
        /\ IF ok
           THEN /\ d_pc' = "done"
                /\ d_result' = Returned(engine, shape, imagesOnOk)
           ELSE LET nxt == OnEngineFail(d_pc, d_in)
                IN  IF nxt = "raise"
                    THEN /\ d_pc' = "done"
                         /\ d_result' = Raised(engine, "Exception")
                    ELSE /\ d_pc' = nxt
                         /\ d_result' = d_result
        /\ UNCHANGED <<d_in, d_type>>
        /\ UNCHANGED notDoc

Route ==
    /\ d_pc = "start"
    /\ LET r == RouteOf(d_in)
       IN  IF r = "unsupported"
           THEN /\ d_pc' = "done"
                /\ d_result' = Raised(NULL, "ValueError")   \* line 577, re-raised at 579
           ELSE /\ d_pc' = CASE r = "image" -> "image_ocr"
                             [] r = "pdf" -> IF d_in.use_mineru THEN "mineru"
                                             ELSE AfterMinerU(d_in)
                             [] r = "word" -> "docx"
                             [] r = "html" -> "html"
                             [] r = "text" -> "text"
                /\ d_result' = d_result
    /\ UNCHANGED <<d_in, d_calls, d_type>>
    /\ UNCHANGED notDoc

CallMinerU ==
    /\ d_pc = "mineru"
    /\ \E imgs \in {"empty", "some"} : Invoke("mineru", "pair", imgs)

CallParser ==
    /\ d_pc = "parser"
    /\ Invoke("parser", "pair", "empty")

DetectType ==
    /\ d_pc = "detect"
    /\ d_type' = detect_pdf_type(d_in.doc)
    /\ d_pc' = AfterDetect(detect_pdf_type(d_in.doc), d_in)
    /\ UNCHANGED <<d_in, d_calls, d_result>>
    /\ UNCHANGED notDoc

CallOCRmyPDF ==
    /\ d_pc \in {"ocr_ocrmypdf", "tess_then_ocrmypdf"}
    /\ Invoke("ocrmypdf", "pair", "empty")

CallTesseract ==
    /\ d_pc \in {"ocr_tesseract", "tess_first"}
    /\ Invoke("tesseract", "pair", "empty")

CallPyMuPDF ==
    /\ d_pc = "pymupdf"
    /\ Invoke("pymupdf", "pair", "empty")

CallImageOCR ==
    /\ d_pc = "image_ocr"
    /\ Invoke("image_ocr", "pair", "empty")

ExtractDocx ==
    /\ d_pc = "docx"
    /\ Invoke("docx", "pair", "empty")

\* HTML and plain text are decoded in place; an empty file raises ValueError,
\* otherwise the text alone is returned (lines 556-574).
DecodeHtml ==
    /\ d_pc = "html"
    /\ d_pc' = "done"
    /\ d_calls' = Append(d_calls, [engine |-> "html", ok |-> ~d_in.blank])
    /\ d_result' = IF d_in.blank THEN Raised("html", "ValueError")
                   ELSE Returned("html", "str", NULL)
    /\ UNCHANGED <<d_in, d_type>>
    /\ UNCHANGED notDoc

DecodeText ==
    /\ d_pc = "text"
    /\ d_pc' = "done"
    /\ d_calls' = Append(d_calls, [engine |-> "text", ok |-> ~d_in.blank])
    /\ d_result' = IF d_in.blank THEN Raised("text", "ValueError")
                   ELSE Returned("text", "str", NULL)
    /\ UNCHANGED <<d_in, d_type>>
    /\ UNCHANGED notDoc

DocIdle ==
    /\ d_pc = "idle"
    /\ d_in = [ctype |-> "application/pdf", ext |-> ".pdf", use_ocr |-> FALSE,
               use_mineru |-> FALSE, sizeMB |-> 4,
               doc |-> [ok |-> FALSE, pages |-> <<>>], blank |-> FALSE]
    /\ d_calls = <<>>
    /\ d_type = "none"
    /\ d_result = NoResult

DocStart ==
    /\ d_pc = "start"
    /\ d_in \in DocInputs
    /\ d_calls = <<>>
    /\ d_type = "none"
    /\ d_result = NoResult

NextDoc ==
    \/ Route
    \/ CallMinerU
    \/ CallParser
    \/ DetectType
    \/ CallOCRmyPDF
    \/ CallTesseract
    \/ CallPyMuPDF
    \/ CallImageOCR
    \/ ExtractDocx
    \/ DecodeHtml
    \/ DecodeText


\* detect_pdf_type applied to every bounded PDF.
DetectStart ==
    /\ d_pc = "detect_only"
    /\ d_in \in {[ctype |-> "application/pdf", ext |-> ".pdf", use_ocr |-> TRUE,
                  use_mineru |-> FALSE, sizeMB |-> 4, doc |-> d, blank |-> FALSE] : d \in Docs}
    /\ d_calls = <<>>
    /\ d_type = "none"
    /\ d_result = NoResult

RunDetect ==
    /\ d_pc = "detect_only"
    /\ d_type' = detect_pdf_type(d_in.doc)
    /\ d_pc' = "detected"
    /\ UNCHANGED <<d_in, d_calls, d_result>>
    /\ UNCHANGED notDoc

NextDetect == RunDetect


(***************************************************************************)
(* ImageProcessingAgent.process_document (image_processing_agent.py)       *)
(***************************************************************************)

\* Bound: images the layout service returns for a document.
MaxImages == 3

\* progress_callback: not given, one whose invocations end, or one that
\* never returns.
AgentInputs == [analyze : BOOLEAN, cb : {"none", "present", "blocking"}]

\* What one invocation of the progress callback does: "skip" when no callback
\* was given, else it returns or raises; an invocation of a blocking
\* callback has no outcome.
CbOutcomes(in) ==
    CASE in.cb = "none" -> {"skip"}
      [] in.cb = "present" -> {"ok", "raise"}
      [] OTHER -> {}

\* What one POST to the vision backend yields: HTTP 200 with a JSON object,
\* 200 with text that is no JSON, 200 with JSON that is no object, a non-200
\* status, or an exception of the HTTP client.
VisionOutcomes == {"ok_json", "ok_nonjson", "ok_nondict", "http_error", "exception"}

\* ExtractedImage as built at lines 417-423: enrichment fields default None.
FreshImage == [ocr_text |-> NULL, description |-> NULL, classification |-> NULL,
               confidence |-> NULL]

NoAgentResult == [status |-> "none", success |-> FALSE, images |-> <<>>,
                  image_count |-> 0, error |-> NULL]

\* ProcessingResult(success=True, images=extracted_images, image_count=...).
AgentSuccess(images) ==
    [status |-> "returned", success |-> TRUE, images |-> images,
     image_count |-> Len(images), error |-> NULL]

\* ProcessingResult(success=False, images=[], error=...): image_count keeps
\* its default 0.
AgentFailure(err) ==
    [status |-> "returned", success |-> FALSE, images |-> <<>>,
     image_count |-> 0, error |-> err]

AgentRaised(err) ==
    [status |-> "raised", success |-> FALSE, images |-> <<>>,
     image_count |-> 0, error |-> err]

\* The events after the callback was invoked with one more (not invoked when
\* no callback was given).
EmitMutant(events, cbo, step, kind) ==
    IF cbo = "skip" THEN events ELSE <<[step |-> step, kind |-> kind]>> \o events

Emit(events, cbo, step, kind) ==
    IF cbo = "skip" THEN events ELSE Append(events, [step |-> step, kind |-> kind])

\* The test on the layout result, "if not mineru_success" (line 371).
MinerUFailedMutant(m) == FALSE

MinerUFailed(m) == m = "fail"

\* The enrichment written for a 200 reply (lines 465-485).
Enriched(img, v, conf) ==
    CASE v = "ok_json" ->
            [ocr_text |-> "set", description |-> "set", classification |-> "set",
             confidence |-> conf]
      [] v = "ok_nonjson" -> [img EXCEPT !.description = "set"]
      [] OTHER -> img

\* Whether the reply of the vision backend raises inside the loop body's try:
\* a client exception, or analysis.get on a reply that is no JSON object.
VisionRaises(v) == v \in {"exception", "ok_nondict"}

\* What the loop does with an exception of the loop body (lines 490-497):
\* "continue" with the next image, or "abort" to the outer handler.
OnImageExceptionMutant == "abort"

OnImageException == "continue"

\* Step 1: the first progress event, then mineru_service.process_pdf
\* (lines 360-412).
AgentExtract ==
    /\ a_pc = "start"
    /\ \E cb1 \in CbOutcomes(a_in), m \in {"ok", "fail", "raise"}, n \in 0..MaxImages,
          cb2 \in CbOutcomes(a_in) :
          LET ev1 == Emit(a_events, cb1, "pdf_extraction", "start")
          IN  IF cb1 = "raise"
              THEN /\ a_events' = ev1
                   /\ a_cbRaised' = TRUE
                   /\ a_pc' = "except"
                   /\ UNCHANGED <<a_mineru, a_images, a_result>>
              ELSE /\ a_mineru' = m
                   /\ IF m = "raise"
                      THEN /\ a_events' = ev1
                           /\ a_pc' = "except"
                           /\ UNCHANGED <<a_images, a_result, a_cbRaised>>
                      ELSE IF MinerUFailed(m)
                      THEN /\ a_events' = Emit(ev1, cb2, "pdf_extraction", "failed")
                           /\ a_cbRaised' = (a_cbRaised \/ cb2 = "raise")
                           /\ IF cb2 = "raise"
                              THEN a_pc' = "except" /\ a_result' = a_result
                              ELSE a_pc' = "done" /\ a_result' = AgentFailure("mineru")
                           /\ UNCHANGED a_images
                      ELSE /\ a_events' = Emit(ev1, cb2, "pdf_extraction", "extracted")
                           /\ a_cbRaised' = (a_cbRaised \/ cb2 = "raise")
                           /\ IF cb2 = "raise"
                              THEN a_pc' = "except" /\ a_images' = a_images
                              ELSE a_pc' = "extracted" /\ a_images' = [i \in 1..n |-> FreshImage]
                           /\ UNCHANGED a_result
    /\ UNCHANGED <<a_in, a_vision, a_idx>>
    /\ UNCHANGED notAgent

\* Step 3 entry: with analyze_images and at least one image, the loop is
\* announced and entered; otherwise it is skipped (lines 426-435).
AgentBeginAnalysis ==
    /\ a_pc = "extracted"
    /\ IF a_in.analyze /\ Len(a_images) > 0
       THEN \E cb \in CbOutcomes(a_in) :
               /\ a_events' = Emit(a_events, cb, "image_analysis", "analyzing_all")
               /\ a_cbRaised' = (a_cbRaised \/ cb = "raise")
               /\ a_pc' = IF cb = "raise" THEN "except" ELSE "analyze"
       ELSE /\ a_pc' = "finish"
            /\ UNCHANGED <<a_events, a_cbRaised>>
    /\ UNCHANGED <<a_in, a_mineru, a_images, a_vision, a_idx, a_result>>
    /\ UNCHANGED notAgent

\* One iteration of the loop of lines 435-497 on image a_idx.
AgentAnalyzeImage ==
    /\ a_pc = "analyze"
    /\ \E cbA \in CbOutcomes(a_in), v \in VisionOutcomes, conf \in {NULL, "set"},
          cbB \in CbOutcomes(a_in), cbS \in CbOutcomes(a_in) :
          LET evA == Emit(a_events, cbA, "image_analysis", "analyzing")
              posted == cbA # "raise"
              \* the "Analyzed" callback runs only after a parsed JSON object
              analyzed == posted /\ v = "ok_json"
              evB == IF analyzed THEN Emit(evA, cbB, "image_analysis", "analyzed") ELSE evA
              excepted == \/ cbA = "raise"
                          \/ posted /\ VisionRaises(v)
                          \/ analyzed /\ cbB = "raise"
              evS == IF excepted THEN Emit(evB, cbS, "image_analysis", "skipped") ELSE evB
              abort == excepted /\ (cbS = "raise" \/ OnImageException = "abort")
          IN  /\ (v # "ok_json" => conf = NULL)
              /\ (~analyzed => cbB = CHOOSE c \in CbOutcomes(a_in) : TRUE)
              /\ (~excepted => cbS = CHOOSE c \in CbOutcomes(a_in) : TRUE)
              /\ (~posted => v = "exception")
              /\ a_events' = evS
              /\ a_vision' = IF posted THEN Append(a_vision, [image |-> a_idx, outcome |-> v])
                             ELSE a_vision
              /\ a_images' = IF posted
                             THEN [a_images EXCEPT ![a_idx] = Enriched(@, v, conf)]
                             ELSE a_images
              /\ a_cbRaised' = (a_cbRaised \/ cbA = "raise" \/ (analyzed /\ cbB = "raise")
                                \/ (excepted /\ cbS = "raise"))
              /\ IF abort
                 THEN a_pc' = "except" /\ a_idx' = a_idx
                 ELSE /\ a_idx' = a_idx + 1
                      /\ a_pc' = IF a_idx = Len(a_images) THEN "finish" ELSE "analyze"
    /\ UNCHANGED <<a_in, a_mineru, a_result>>
    /\ UNCHANGED notAgent

\* The result is built, the "complete" event sent and the result returned
\* (lines 499-523).
AgentFinish ==
    /\ a_pc = "finish"
    /\ \E cb \in CbOutcomes(a_in) :
          /\ a_events' = Emit(a_events, cb, "complete", "complete")
          /\ a_cbRaised' = (a_cbRaised \/ cb = "raise")
          /\ IF cb = "raise"
             THEN a_pc' = "except" /\ a_result' = a_result
             ELSE a_pc' = "done" /\ a_result' = AgentSuccess(a_images)
    /\ UNCHANGED <<a_in, a_mineru, a_images, a_vision, a_idx>>
    /\ UNCHANGED notAgent

\* The outer handler (lines 525-544): an "error" event, then a failure
\* result; an exception of that callback leaves process_document.
AgentExcept ==
    /\ a_pc = "except"
    /\ \E cb \in CbOutcomes(a_in) :
          /\ a_events' = Emit(a_events, cb, "error", "error")
          /\ a_cbRaised' = (a_cbRaised \/ cb = "raise")
          /\ a_result' = IF cb = "raise" THEN AgentRaised("callback")
                         ELSE AgentFailure("exception")
          /\ a_pc' = "done"
    /\ UNCHANGED <<a_in, a_mineru, a_images, a_vision, a_idx>>
    /\ UNCHANGED notAgent

\* The first "await progress_callback(...)" (lines 360-366) with a callback
\* that never returns: the await has no timeout, so process_document stays
\* there.
AgentCallbackBlocks ==
    /\ a_pc = "start"
    /\ a_in.cb = "blocking"
    /\ a_events' = Append(a_events, [step |-> "pdf_extraction", kind |-> "start"])
    /\ a_pc' = "blocked"
    /\ UNCHANGED <<a_in, a_mineru, a_images, a_vision, a_idx, a_cbRaised, a_result>>
    /\ UNCHANGED notAgent

AgentIdle ==
    /\ a_pc = "idle"
    /\ a_in = [analyze |-> FALSE, cb |-> "none"]
    /\ a_mineru = "none"
    /\ a_events = <<>>
    /\ a_images = <<>>
    /\ a_vision = <<>>
    /\ a_idx = 1
    /\ a_cbRaised = FALSE
    /\ a_result = NoAgentResult

AgentStart ==
    /\ a_pc = "start"
    /\ a_in \in AgentInputs
    /\ a_mineru = "none"
    /\ a_events = <<>>
    /\ a_images = <<>>
    /\ a_vision = <<>>
    /\ a_idx = 1
    /\ a_cbRaised = FALSE
    /\ a_result = NoAgentResult

NextAgent ==
    \/ AgentExtract
    \/ AgentBeginAnalysis
    \/ AgentAnalyzeImage
    \/ AgentFinish
    \/ AgentExcept
    \/ AgentCallbackBlocks

(***************************************************************************)
(* POST /extract-structured (services/mineru-mlx/app.py)                   *)
(***************************************************************************)

\* os.getenv of an API key: unset, set to the empty string, or a key.
KeyValues == {NULL, "", "sk-key"}

TemplateIds == {"general_document", "medical_research"}

\* What the templates directory can hold for each template id: no file, a
\* file that json.load or ExtractionTemplate(**data) rejects, or a file
\* that loads, whose variables have unique sibling names or not and nest to
\* some depth.
TemplateDirs ==
    LET none == [present |-> FALSE, loads |-> FALSE, unique_names |-> TRUE, depth |-> 0]
        good(d) == [present |-> TRUE, loads |-> TRUE, unique_names |-> TRUE, depth |-> d]
    IN  [general_document : {none, [none EXCEPT !.present = TRUE], good(1),
                             [good(1) EXCEPT !.unique_names = FALSE], good(9)},
         medical_research : {none, good(8)}]

\* _load_all_templates (lines 65-79): every file that loads is registered
\* under its id; a file that raises is reported and skipped.
LoadAllTemplates(files) ==
    {t \in TemplateIds : files[t].present /\ files[t].loads}

\* The process environment read at import time, and the templates that
\* _load_all_templates registered.
ExtractEnvs ==
    {[openai_key |-> a, anthropic_key |-> b, files |-> f,
      registry |-> LoadAllTemplates(f)] : a \in KeyValues, b \in KeyValues,
                                          f \in TemplateDirs}

\* An override the request does not supply (None).
NoOverride == -1

\* The parameters of the loaded templates, and the length of the request's
\* text, in small numbers.
TemplateParameters == [temperature |-> 1, max_tokens |-> 3, max_text_length |-> 4,
                       timeout |-> 2]
TextLength == 6

\* The overrides of a request: none, one parameter overridden (with zero or
\* a number; for max_text_length a number below and one above the
\* template's), or all four overridden.
ExtractOverrides ==
    LET none == [temperature |-> NoOverride, max_tokens |-> NoOverride,
                 max_text_length |-> NoOverride, timeout |-> NoOverride]
    IN  {none, [temperature |-> 7, max_tokens |-> 7, max_text_length |-> 5, timeout |-> 7]}
          \cup {[none EXCEPT !.temperature = v] : v \in {0, 7}}
          \cup {[none EXCEPT !.max_tokens = v] : v \in {0, 7}}
          \cup {[none EXCEPT !.timeout = v] : v \in {0, 7}}
          \cup {[none EXCEPT !.max_text_length = v] : v \in {0, 2, 5}}

ExtractRequests ==
    [provider : {"ollama", "openai", "claude", "gemini"},
     model : {"qwen2.5-coder:7b", "gpt-4o"},
     template_id : {NULL, "medical_research", "unknown_template"},
     variables_template : BOOLEAN,
     overrides : ExtractOverrides]

\* The params dict of get_template_and_params (lines 610-615): "override or
\* template value" for each parameter; None and 0 are both falsy.
EffectiveParams(overrides) ==
    LET OrElse(override, value) ==
            IF override = NoOverride \/ override = 0 THEN value ELSE override
    IN  [k \in DOMAIN TemplateParameters |-> OrElse(overrides[k], TemplateParameters[k])]

\* Length of text[:text_limit] in build_prompt (lines 109-110) with
\* text_limit = max_text_length or template.parameters.max_text_length.
TruncatedLength(max_text_length) ==
    LET text_limit == IF max_text_length = NoOverride \/ max_text_length = 0
                      THEN TemplateParameters.max_text_length ELSE max_text_length
    IN  IF text_limit >= 0 THEN Min(TextLength, text_limit)
        ELSE IF TextLength + text_limit > 0 THEN TextLength + text_limit ELSE 0

\* Python truthiness of an optional string.
Truthy(v) == v \notin {NULL, ""}

\* The providers offered (lines 45-54).
AVAILABLE_PROVIDERS(env) ==
    {"ollama"}
        \cup (IF Truthy(env.openai_key) THEN {"openai"} ELSE {})
        \cup (IF Truthy(env.anthropic_key) THEN {"claude"} ELSE {})

\* template_loader.get_default_template: general_document, else any
\* registered template, else ValueError (NULL here).
get_default_template(registry) ==
    IF "general_document" \in registry THEN "general_document"
    ELSE IF registry # {} THEN CHOOSE t \in registry : TRUE
    ELSE NULL

\* get_template_and_params, the template part (lines 600-608): the template
\* used, or NULL when ValueError is raised.
ResolveTemplate(req, registry) ==
    IF req.variables_template THEN get_default_template(registry)
    ELSE IF req.template_id # NULL
         THEN IF req.template_id \in registry THEN req.template_id ELSE NULL
    ELSE get_default_template(registry)

\* What a provider call can end in.  For Ollama (lines 712-760) every failure
\* is turned into an HTTPException; the cloud clients raise their own errors
\* and json.loads raises JSONDecodeError (lines 632-691).
ProviderOutcomes(provider) ==
    IF provider \in {"openai", "claude"}
    THEN {"sdk_error", "no_content", "invalid_json",
          "json_object", "json_not_object", "json_null"}
    ELSE {"timeout", "connection", "http_status", "empty_reply", "invalid_json",
          "json_object", "json_not_object", "json_null"}

\* The exception class a failed provider call raises into the handler.
ProviderException(provider, outcome) ==
    CASE outcome \in {"timeout", "connection", "http_status", "empty_reply"} -> "HTTPException"
      [] outcome = "invalid_json" ->
            IF provider \in {"openai", "claude"} THEN "JSONDecodeError" ELSE "HTTPException"
      [] outcome = "sdk_error" -> "APIError"
      [] outcome = "no_content" -> "TypeError"
      [] OTHER -> NULL

\* The except clause of extract_structured that takes an exception
\* (lines 844-875), or "propagate" when none does.
ExceptClauseMutant(exc) ==
    CASE exc = "JSONDecodeError" -> "json"
      [] exc = "TimeoutExpired" -> "timeout"
      [] exc = "HTTPException" -> "propagate"
      [] exc \in {"ValueError", "KeyError", "TypeError",
                  "ValidationError", "APIError"} -> "generic"
      [] OTHER -> "propagate"

ExceptClause(exc) ==
    CASE exc = "JSONDecodeError" -> "json"
      [] exc = "TimeoutExpired" -> "timeout"
      [] exc \in {"HTTPException", "ValueError", "KeyError", "TypeError",
                  "ValidationError", "APIError"} -> "generic"
      [] OTHER -> "propagate"

\* A template's top-level variables (ExtractionTemplate.variables); all of
\* them are declared with required = false.
TemplateVariables(template) ==
    IF template = "medical_research" THEN {"title", "diagnosis"} ELSE {"title"}

\* The JSON objects a model may reply with: any of these keys, each with a
\* text, the string "N/A", the empty string or null.
ModelReplies ==
    UNION {[keys -> {"text", "N/A", "", NULL}] :
              keys \in SUBSET {"title", "unknown_key"}}

\* ExtractResponse.data = None.
NoData == [kind |-> "null", fields |-> <<>>]

NoResponse == [kind |-> "none", status |-> 0, success |-> FALSE, model |-> NULL,
               provider |-> NULL, error |-> NULL, data |-> NoData]

\* ExtractResponse(...) returned by the handler: HTTP 200.
Envelope(req, success, error, data) ==
    [kind |-> "returned", status |-> 200, success |-> success, model |-> req.model,
     provider |-> req.provider, error |-> error, data |-> data]

\* An exception that leaves the handler: FastAPI answers with an error status.
HandlerRaised(exc) ==
    [kind |-> "raised", status |-> 500, success |-> FALSE, model |-> NULL,
     provider |-> NULL, error |-> exc, data |-> NoData]

\* The response for an exception raised inside the handler's try block.
OnException(req, exc) ==
    IF ExceptClause(exc) = "propagate" THEN HandlerRaised(exc)
    ELSE Envelope(req, FALSE, exc, NoData)

NoTrace == [lookups |-> 0, completions |-> 0, failure |-> "none", template |-> NULL,
            params |-> [k \in DOMAIN TemplateParameters |-> NoOverride],
            prompt_text |-> NoOverride]

\* Whether the handler goes on to resolve the template (line 775).
ProviderAcceptedMutant(req, env) == TRUE

ProviderAccepted(req, env) == req.provider \in AVAILABLE_PROVIDERS(env)

ReceiveExtract ==
    /\ x_pc = "idle"
    /\ x_req' \in ExtractRequests
    /\ x_pc' = "received"
    /\ UNCHANGED <<x_env, x_resp, x_trace>>
    /\ UNCHANGED notExtract

\* The whole handler extract_structured (lines 763-875).
HandleExtract ==
    /\ x_pc = "received"
    /\ x_pc' = "responded"
    /\ IF ~ProviderAccepted(x_req, x_env)
       THEN /\ x_resp' = Envelope(x_req, FALSE, "provider_not_available", NoData)
            /\ x_trace' = [NoTrace EXCEPT !.failure = "provider_not_available"]
       ELSE LET template == ResolveTemplate(x_req, x_env.registry)
            IN  IF template = NULL
                THEN /\ x_resp' = OnException(x_req, "ValueError")
                     /\ x_trace' = [NoTrace EXCEPT !.lookups = 1,
                                                   !.failure = "template_not_found"]
                ELSE \E rendered \in BOOLEAN, o \in ProviderOutcomes(x_req.provider),
                        reply \in ModelReplies :
                        IF ~rendered
                        THEN /\ o = "json_object" /\ reply = <<>>
                             /\ x_resp' = OnException(x_req, "KeyError")
                             /\ x_trace' = [NoTrace EXCEPT
                                              !.lookups = 1, !.failure = "render_error",
                                              !.template = template,
                                              !.params = EffectiveParams(x_req.overrides)]
                        ELSE /\ o # "json_object" => reply = <<>>
                             /\ x_trace' =
                                  [lookups |-> 1, completions |-> 1,
                                   failure |-> IF o \in {"json_object", "json_null"}
                                               THEN "none" ELSE o,
                                   template |-> template,
                                   params |-> EffectiveParams(x_req.overrides),
                                   prompt_text |->
                                      TruncatedLength(
                                         EffectiveParams(x_req.overrides).max_text_length)]
                             /\ x_resp' =
                                  IF ProviderException(x_req.provider, o) # NULL
                                  THEN OnException(x_req, ProviderException(x_req.provider, o))
                                  ELSE IF o = "json_not_object"
                                  THEN OnException(x_req, "ValidationError")
                                  ELSE IF o = "json_null"
                                  THEN Envelope(x_req, TRUE, NULL, NoData)
                                  \* the parsed reply is returned as it is (line 838)
                                  ELSE Envelope(x_req, TRUE, NULL,
                                                [kind |-> "object", fields |-> reply])
    /\ UNCHANGED <<x_env, x_req>>
    /\ UNCHANGED notExtract

ExtractIdle ==
    /\ x_pc = "off"
    /\ x_env = [openai_key |-> NULL, anthropic_key |-> NULL,
                files |-> [general_document |-> [present |-> FALSE, loads |-> FALSE,
                                                 unique_names |-> TRUE, depth |-> 0],
                           medical_research |-> [present |-> FALSE, loads |-> FALSE,
                                                 unique_names |-> TRUE, depth |-> 0]],
                registry |-> {}]
    /\ x_req = [provider |-> "ollama", model |-> "qwen2.5-coder:7b",
                template_id |-> NULL, variables_template |-> FALSE,
                overrides |-> [k \in DOMAIN TemplateParameters |-> NoOverride]]
    /\ x_resp = NoResponse
    /\ x_trace = NoTrace

ExtractStart ==
    /\ x_pc = "idle"
    /\ x_env \in ExtractEnvs
    /\ x_req = [provider |-> "ollama", model |-> "qwen2.5-coder:7b",
                template_id |-> NULL, variables_template |-> FALSE,
                overrides |-> [k \in DOMAIN TemplateParameters |-> NoOverride]]
    /\ x_resp = NoResponse
    /\ x_trace = NoTrace

NextExtract ==
    \/ ReceiveExtract
    \/ HandleExtract

(***************************************************************************)
(* ImageContentProcessor (server/services/image_content_processor.py)      *)
(***************************************************************************)

MaxSourceImages == 2
MaxRuns == 2

\* An image row before any enrichment: no flag set, no vector, and nothing
\* under "enrichment_error".
FreshRecord == [ocr_processed |-> FALSE, embedding_generated |-> FALSE, updated_at |-> 0,
                embedding |-> NULL, enrichment_error |-> NULL]

\* What the external calls made for one image can end in: whether the
\* record read of the skip check succeeds, the first step that fails (or
\* "ok"), the image type the vision model reports, and the vector the
\* embedding backend returns (of the model's dimension, of another
\* dimension, or none: result.get("embedding", [])).  A vision call fails
\* with a connection error or non-200 status ("vision_transient") or with a
\* reply that does not parse ("vision_parse").
EnrichSteps == {"fetch_fail", "vision_transient", "vision_parse", "embed_fail",
                "update_fail", "ok"}
ImageOutcomes ==
    {o \in [read : BOOLEAN, step : EnrichSteps, image_type : {"photo", "chart"},
            vector : {"dim_ok", "dim_other", "empty"}] :
        /\ o.step \in {"fetch_fail", "vision_transient", "vision_parse"}
              => o.image_type = "photo"
        /\ o.step # "ok" => o.vector = "dim_ok"}

NoCalls == [status |-> "none", record_read |-> "none", failed_at |-> "none", fetch |-> 0,
            vision |-> 0, embedding |-> 0, update |-> 0]

\* _get_image_record (lines 392-409): the row, or None when the query raises.
SeenRecord(rec, o) == [found |-> o.read, row |-> rec]

\* The skip test of process_image_content (lines 66-70).
AlreadyProcessedMutant(force_refresh, seen) == FALSE

AlreadyProcessed(force_refresh, seen) ==
    /\ ~force_refresh
    /\ seen.found
    /\ seen.row.ocr_processed
    /\ seen.row.embedding_generated

\* _update_image_record (lines 481-490): the one update stores the vector as
\* returned and sets both flags.
UpdatedRecord(rec, run, vector) ==
    [rec EXCEPT !.ocr_processed = TRUE, !.embedding_generated = TRUE, !.updated_at = run,
                !.embedding = vector]

\* Requests one call of _extract_ocr_and_classify sends (lines 209-223).
VisionAttempts == 1

\* The stored record when process_image_content raises at a step: nothing is
\* written before the final _update_image_record (lines 73-111), and a
\* failed update changes no row.
RecordWhenRaisedMutant(rec, step) ==
    IF step = "embed_fail" THEN [rec EXCEPT !.ocr_processed = TRUE] ELSE rec

RecordWhenRaised(rec, step) == rec

\* process_image_content for one image, as called from the loop of
\* process_all_images_for_source with its try/except (lines 51-126, 157-165):
\* the record afterwards and the calls that were made.
ProcessImageContent(rec, force_refresh, o, run) ==
    LET readState == IF force_refresh THEN "none" ELSE IF o.read THEN "ok" ELSE "failed"
        structured == IF o.image_type = "chart" THEN 1 ELSE 0
        Failed(vision, embedding, update) ==
            [record |-> RecordWhenRaised(rec, o.step),
             calls |-> [status |-> "error", record_read |-> readState, failed_at |-> o.step,
                        fetch |-> 1, vision |-> vision, embedding |-> embedding,
                        update |-> update]]
    IN  IF AlreadyProcessed(force_refresh, SeenRecord(rec, o))
        THEN [record |-> rec,
              calls |-> [NoCalls EXCEPT !.status = "already_processed",
                                        !.record_read = readState]]
        ELSE CASE o.step = "fetch_fail" -> Failed(0, 0, 0)
               [] o.step \in {"vision_transient", "vision_parse"} ->
                    Failed(VisionAttempts, 0, 0)
               [] o.step = "embed_fail" -> Failed(VisionAttempts + structured, 1, 0)
               [] o.step = "update_fail" -> Failed(VisionAttempts + structured, 1, 1)
               [] OTHER ->
                    [record |-> UpdatedRecord(rec, run, o.vector),
                     calls |-> [status |-> "success", record_read |-> readState,
                                failed_at |-> "none", fetch |-> 1,
                                vision |-> VisionAttempts + structured, embedding |-> 1,
                                update |-> 1]]

\* process_all_images_for_source up to its loop (lines 142-156): the images
\* are listed; the call raises when the listing raises and returns
\* "no_images" when there is none.
BeginRun ==
    /\ e_pc = "ready"
    /\ e_run.number < MaxRuns
    /\ \E force_refresh \in BOOLEAN, listed \in BOOLEAN :
          /\ e_run' = [number |-> e_run.number + 1, force_refresh |-> force_refresh,
                       status |-> IF ~listed THEN "raised"
                                  ELSE IF DOMAIN e_records = {} THEN "no_images"
                                  ELSE "running"]
          /\ e_pc' = IF listed /\ DOMAIN e_records # {} THEN "loop" ELSE "ready"
    /\ e_before' = e_records
    /\ e_calls' = [i \in DOMAIN e_records |-> NoCalls]
    /\ e_idx' = 1
    /\ UNCHANGED <<e_records, e_inflight>>
    /\ UNCHANGED notEnrich

\* Whether the loop may start the next image: each call is awaited, so only
\* when no earlier call is still running (line 159).
CanStartMutant(inflight) == TRUE

CanStart(inflight) == inflight = {}

\* The loop calls process_image_content for the next image (lines 157-161).
ProcessNextImage ==
    /\ e_pc = "loop"
    /\ e_idx \in DOMAIN e_records
    /\ CanStart(e_inflight)
    /\ e_inflight' = e_inflight \cup {e_idx}
    /\ e_idx' = e_idx + 1
    /\ UNCHANGED <<e_pc, e_records, e_before, e_calls, e_run>>
    /\ UNCHANGED notEnrich

\* A running process_image_content call ends, by returning or raising
\* (lines 51-126, 162-165).
ImageContentProcessed ==
    /\ e_pc = "loop"
    /\ \E i \in e_inflight, o \in ImageOutcomes :
          LET done == ProcessImageContent(e_records[i], e_run.force_refresh, o, e_run.number)
          IN  /\ e_records' = [e_records EXCEPT ![i] = done.record]
              /\ e_calls' = [e_calls EXCEPT ![i] = done.calls]
              /\ e_inflight' = e_inflight \ {i}
    /\ UNCHANGED <<e_pc, e_idx, e_before, e_run>>
    /\ UNCHANGED notEnrich

\* The summary returned after the loop (lines 167-185).
FinishRun ==
    /\ e_pc = "loop"
    /\ e_idx \notin DOMAIN e_records
    /\ e_inflight = {}
    /\ e_run' = [e_run EXCEPT !.status = "complete"]
    /\ e_pc' = "ready"
    /\ UNCHANGED <<e_records, e_before, e_calls, e_idx, e_inflight>>
    /\ UNCHANGED notEnrich

NoRun == [number |-> 0, force_refresh |-> FALSE, status |-> "none"]

EnrichIdle ==
    /\ e_pc = "off"
    /\ e_records = <<>>
    /\ e_before = <<>>
    /\ e_calls = <<>>
    /\ e_idx = 1
    /\ e_inflight = {}
    /\ e_run = NoRun

\* A source whose images have been uploaded and not yet enriched.
EnrichStart ==
    /\ e_pc = "ready"
    /\ \E n \in 0..MaxSourceImages : e_records = [i \in 1..n |-> FreshRecord]
    /\ e_before = e_records
    /\ e_calls = [i \in DOMAIN e_records |-> NoCalls]
    /\ e_idx = 1
    /\ e_inflight = {}
    /\ e_run = NoRun

NextEnrich ==
    \/ BeginRun
    \/ ProcessNextImage
    \/ ImageContentProcessed
    \/ FinishRun

(***************************************************************************)
(* POST /process (services/mineru-mlx/app.py)                              *)
(***************************************************************************)

MaxEmbedded == 2
MaxPdfPages == 2
MaxDetsPerPage == 2

\* page_number None.
NoPage == 0

\* What an entry of MinerU's embedded image list can be (lines 313-370): a
\* dict holding a PIL image, a dict without one, a bare PIL image, some
\* other object, or an image whose PNG encoding raises.
EmbeddedKinds == {"dict_pil", "dict_no_pil", "pil", "other", "encode_error"}

\* The 'page_number' a dict entry may carry (None when the key is absent).
EmbeddedPageNumbers == {NoPage} \cup (1..MaxPdfPages)

\* What a layout detection can be: an image (category 0) or figure
\* (category 3) whose region is cropped, one whose bbox has not 4 numbers,
\* one whose rendering or cropping raises, or a table / formula / text.
DetectionKinds == {"image", "figure", "image_bad_bbox", "image_crop_error",
                   "table", "formula", "text"}

IsImageOrFigure(det) ==
    det \in {"image", "figure", "image_bad_bbox", "image_crop_error"}

\* ImageData (lines 83-89); origin is what the name is built from
\* ("embedded_{idx}.png" or "page_{n}_region_{idx}.png").
ImageData(origin, page_number, image_index) ==
    [origin |-> origin, page_number |-> page_number, image_index |-> image_index,
     mime_type |-> "image/png"]

\* metadata["images_extracted"] (line 463).
images_extracted_Mutant(image_data_list, pdf_images, image_count) ==
    pdf_images + image_count

images_extracted(image_data_list, pdf_images, image_count) == Len(image_data_list)

NoProcessResponse ==
    [kind |-> "none", status |-> 0, success |-> FALSE, images |-> <<>>,
     metadata |-> [images_extracted |-> 0, images_detected |-> 0, images_embedded |-> 0]]

NoMinerU == [pdf_images |-> 0, pages |-> 0, pdf_doc |-> FALSE]

NoCounts == [image_count |-> 0, table_count |-> 0, formula_count |-> 0, skipped |-> 0]

\* Lines 222-254: the upload is validated and handed to doc_analyze.  A
\* file that is not a PDF is refused with 400; an exception of doc_analyze
\* is answered with 500 (lines 478-496).
ReceivePdf ==
    /\ p_pc = "idle"
    /\ \E is_pdf \in BOOLEAN, analysed \in BOOLEAN, n \in 0..MaxEmbedded,
          pages \in 0..MaxPdfPages, pdf_doc \in BOOLEAN :
          IF ~is_pdf \/ ~analysed
          THEN /\ n = 0 /\ pages = 0 /\ ~pdf_doc /\ (is_pdf \/ analysed)
               /\ p_pc' = "responded"
               /\ p_resp' = [NoProcessResponse EXCEPT !.kind = "raised",
                                                      !.status = IF is_pdf THEN 500 ELSE 400]
               /\ UNCHANGED p_mineru
          ELSE /\ p_pc' = "embedded"
               /\ p_mineru' = [pdf_images |-> n, pages |-> pages, pdf_doc |-> pdf_doc]
               /\ UNCHANGED p_resp
    /\ UNCHANGED <<p_idx, p_page, p_det, p_region_idx, p_images, p_counts>>
    /\ UNCHANGED notProcess

\* One iteration of the loop over the embedded images (lines 313-370).
EncodeEmbedded ==
    /\ p_pc = "embedded"
    /\ p_idx < p_mineru.pdf_images
    /\ \E kind \in EmbeddedKinds, page_number \in EmbeddedPageNumbers :
          CASE kind = "dict_pil" ->
                  /\ p_images' = Append(p_images, ImageData("embedded", page_number, p_idx))
                  /\ UNCHANGED p_counts
            [] kind = "pil" ->
                  /\ page_number = NoPage
                  /\ p_images' = Append(p_images, ImageData("embedded", NoPage, p_idx))
                  /\ UNCHANGED p_counts
            [] OTHER ->
                  /\ page_number = NoPage
                  /\ p_counts' = [p_counts EXCEPT !.skipped = @ + 1]
                  /\ UNCHANGED p_images
    /\ p_idx' = p_idx + 1
    /\ UNCHANGED <<p_pc, p_mineru, p_page, p_det, p_region_idx, p_resp>>
    /\ UNCHANGED notProcess

BeginRegions ==
    /\ p_pc = "embedded"
    /\ p_idx = p_mineru.pdf_images
    /\ p_pc' = "regions"
    /\ UNCHANGED <<p_mineru, p_idx, p_page, p_det, p_region_idx, p_images, p_counts, p_resp>>
    /\ UNCHANGED notProcess

\* One layout detection of the current page: it is counted (lines 262-271)
\* and, when there is a document to render, an image or figure is cropped
\* and appended (lines 375-433).  The two loops of the code visit the same
\* detections in the same order, after the embedded images.
VisitDetection ==
    /\ p_pc = "regions"
    /\ p_page < p_mineru.pages
    /\ p_det < MaxDetsPerPage
    /\ \E det \in DetectionKinds :
          LET cropped == p_mineru.pdf_doc /\ det \in {"image", "figure"}
          IN  /\ p_counts' =
                   [p_counts EXCEPT
                      !.image_count = IF IsImageOrFigure(det) THEN @ + 1 ELSE @,
                      !.table_count = IF det = "table" THEN @ + 1 ELSE @,
                      !.formula_count = IF det = "formula" THEN @ + 1 ELSE @,
                      !.skipped = IF IsImageOrFigure(det) /\ ~cropped THEN @ + 1 ELSE @]
              /\ p_images' = IF cropped
                             THEN Append(p_images, ImageData("region", p_page + 1, p_region_idx))
                             ELSE p_images
              /\ p_region_idx' = IF cropped THEN p_region_idx + 1 ELSE p_region_idx
    /\ p_det' = p_det + 1
    /\ UNCHANGED <<p_pc, p_mineru, p_idx, p_page, p_resp>>
    /\ UNCHANGED notProcess

NextPage ==
    /\ p_pc = "regions"
    /\ p_page < p_mineru.pages
    /\ p_page' = p_page + 1
    /\ p_det' = 0
    /\ UNCHANGED <<p_pc, p_mineru, p_idx, p_region_idx, p_images, p_counts, p_resp>>
    /\ UNCHANGED notProcess

\* The response (lines 448-476).
RespondProcess ==
    /\ p_pc = "regions"
    /\ p_page = p_mineru.pages
    /\ p_pc' = "responded"
    /\ p_resp' = [kind |-> "returned", status |-> 200, success |-> TRUE,
                  images |-> p_images,
                  metadata |->
                     [images_extracted |-> images_extracted(p_images, p_mineru.pdf_images,
                                                            p_counts.image_count),
                      images_detected |-> p_counts.image_count,
                      images_embedded |-> p_mineru.pdf_images]]
    /\ UNCHANGED <<p_mineru, p_idx, p_page, p_det, p_region_idx, p_images, p_counts>>
    /\ UNCHANGED notProcess

ProcessIdle ==
    /\ p_pc = "off"
    /\ p_mineru = NoMinerU
    /\ p_idx = 0
    /\ p_page = 0
    /\ p_det = 0
    /\ p_region_idx = 0
    /\ p_images = <<>>
    /\ p_counts = NoCounts
    /\ p_resp = NoProcessResponse

ProcessStart ==
    /\ p_pc = "idle"
    /\ p_mineru = NoMinerU
    /\ p_idx = 0
    /\ p_page = 0
    /\ p_det = 0
    /\ p_region_idx = 0
    /\ p_images = <<>>
    /\ p_counts = NoCounts
    /\ p_resp = NoProcessResponse

NextProcess ==
    \/ ReceivePdf
    \/ EncodeEmbedded
    \/ BeginRegions
    \/ VisitDetection
    \/ NextPage
    \/ RespondProcess

(***************************************************************************)
(* ImageStorageService (server/services/storage/image_storage_service.py)  *)
(***************************************************************************)

\* ext_map.get(mime_type, "jpg") (lines 57-63).
Ext(mime_type) ==
    CASE mime_type = "image/jpeg" -> "jpg"
      [] mime_type = "image/png" -> "png"
      [] mime_type = "image/gif" -> "gif"
      [] mime_type = "image/webp" -> "webp"
      [] OTHER -> "jpg"

\* _generate_storage_path (lines 38-71): "{source_id}/page_{p}_img_{i}.{ext}",
\* or "{source_id}/img_{i}.{ext}" without a page number.
GenerateStoragePath(source_id, page_number, image_index, mime_type) ==
    IF page_number # NoPage
    THEN <<source_id, "page", page_number, "img", image_index, Ext(mime_type)>>
    ELSE <<source_id, "img", image_index, Ext(mime_type)>>

MaxUploads == 3

SourceIds == {"source"}
ImageContents == {"bytes_a", "bytes_b"}
MimeTypes == {"image/png", "image/jpeg"}

UploadArgs ==
    [source_id : SourceIds, image_data : ImageContents, mime_type : MimeTypes,
     page_number : {NoPage, 1}, image_index : {0, 1}]

\* Where an upload_image call can fail: base64 decoding, the storage upload
\* (raising, or returning nothing), the insert (APIError, or no data
\* returned), the signed URL; or nowhere.
UploadOutcomes == {"decode_error", "storage_error", "storage_no_result",
                   "insert_api_error", "insert_no_data", "signed_url_error", "ok"}

\* The row built at lines 123-138; the id is a fresh uuid4.
ImageMetadata(id, args) ==
    [id |-> id, source_id |-> args.source_id, page_number |-> args.page_number,
     image_index |-> args.image_index,
     storage_path |-> GenerateStoragePath(args.source_id, args.page_number,
                                          args.image_index, args.mime_type),
     mime_type |-> args.mime_type]

\* The bucket after storage.upload(path, file, upsert = "true") (lines 113-117).
Upsert(blobs, path, content) ==
    {b \in blobs : b.path # path} \cup {[path |-> path, content |-> content]}

\* upload_image (lines 73-161).
UploadImage ==
    /\ s_pc = "ready"
    /\ s_calls < MaxUploads
    /\ \E args \in UploadArgs, outcome \in UploadOutcomes :
          LET path == GenerateStoragePath(args.source_id, args.page_number,
                                          args.image_index, args.mime_type)
              stored == outcome \notin {"decode_error", "storage_error", "storage_no_result"}
              inserted == outcome \in {"signed_url_error", "ok"}
          IN  /\ s_blobs' = IF stored THEN Upsert(s_blobs, path, args.image_data)
                            ELSE s_blobs
              /\ s_records' = IF inserted
                              THEN s_records \cup {ImageMetadata(s_calls + 1, args)}
                              ELSE s_records
              /\ s_last' = [args |-> args,
                            result |-> IF outcome = "ok" THEN "returned" ELSE "raised",
                            outcome |-> outcome]
    /\ s_calls' = s_calls + 1
    /\ UNCHANGED s_pc
    /\ UNCHANGED notStore

NoUpload ==
    [args |-> [source_id |-> "source", image_data |-> "bytes_a", mime_type |-> "image/png",
               page_number |-> NoPage, image_index |-> 0],
     result |-> "none", outcome |-> "none"]

StoreIdle ==
    /\ s_pc = "off"
    /\ s_calls = 0
    /\ s_blobs = {}
    /\ s_records = {}
    /\ s_last = NoUpload

\* An empty bucket and an empty archon_document_images table.
StoreStart ==
    /\ s_pc = "ready"
    /\ s_calls = 0
    /\ s_blobs = {}
    /\ s_records = {}
    /\ s_last = NoUpload

NextStore == UploadImage

(***************************************************************************)
(* ChartExtractionService.extract_chart_data                               *)
(* (server/services/chart_extraction_service.py)                           *)
(***************************************************************************)

\* One call: the provider asked for, what the two availability probes
\* answer, and whether an Anthropic API key is set or can be looked up.
ChartInputs ==
    [provider: {"auto", "local", "claude", "openai", "gemini"},
     ollama_available: BOOLEAN, anthropic_available: BOOLEAN, api_key: BOOLEAN]

\* What _extract_with_ollama and _extract_with_claude can come to.  Without
\* an API key the Claude helper returns before any request is made.
ChartOutcomes(provider, in) ==
    IF provider = "ollama"
    THEN {"ok", "parse_failed", "http_error", "timeout", "exception"}
    ELSE IF in.api_key THEN {"ok", "parse_failed", "timeout", "exception"}
    ELSE {"no_key"}

\* Both helpers return True once the model has answered, whether or not its
\* answer could be parsed (lines 339-347, 428-437, 573-581).
ExtractionSucceeded(o) == o \in {"ok", "parse_failed"}

\* The pair (success, result) handed back: provider_used is written only on
\* success.
ChartResult(success, provider, error) ==
    [status |-> "returned", success |-> success,
     provider_used |-> IF success THEN provider ELSE NULL,
     error |-> error]

\* AUTO returns the local result when the local extraction succeeded
\* (lines 265-267).
ReturnsLocalResultMutant(success) == FALSE

ReturnsLocalResult(success) == success

\* await self._extract_with_ollama(...): provider LOCAL, or AUTO when
\* _is_ollama_available() (lines 260-271, 287-292).
ChartCallOllama ==
    /\ c_pc = "start"
    /\ \/ c_in.provider = "local"
       \/ c_in.provider = "auto" /\ c_in.ollama_available
    /\ \E o \in ChartOutcomes("ollama", c_in) :
          LET success == ExtractionSucceeded(o)
          IN  /\ c_calls' = Append(c_calls, [provider |-> "ollama", outcome |-> o])
              /\ IF c_in.provider = "auto" /\ ~ReturnsLocalResult(success)
                 THEN c_pc' = "fallback" /\ UNCHANGED c_result
                 ELSE /\ c_pc' = "done"
                      /\ c_result' = ChartResult(success, "ollama",
                                                 IF o = "ok" THEN NULL ELSE o)
    /\ UNCHANGED c_in
    /\ UNCHANGED notChart

\* await self._extract_with_claude(...): provider CLAUDE, or the fallback of
\* AUTO when _is_anthropic_available() (lines 274-281, 294-299).
ChartCallClaude ==
    /\ \/ c_pc = "start" /\ c_in.provider = "claude"
       \/ /\ c_in.provider = "auto"
          /\ c_in.anthropic_available
          /\ \/ c_pc = "fallback"
             \/ c_pc = "start" /\ ~c_in.ollama_available
    /\ \E o \in ChartOutcomes("claude", c_in) :
          /\ c_calls' = Append(c_calls, [provider |-> "claude", outcome |-> o])
          /\ c_result' = ChartResult(ExtractionSucceeded(o), "claude",
                                     IF o = "ok" THEN NULL ELSE o)
    /\ c_pc' = "done"
    /\ UNCHANGED c_in
    /\ UNCHANGED notChart

\* The two returns that call no provider: AUTO with no cloud provider to
\* fall back to (lines 282-285) and a provider that is not implemented
\* (lines 301-302).
ChartNoProvider ==
    /\ \/ /\ c_in.provider = "auto"
          /\ ~c_in.anthropic_available
          /\ \/ c_pc = "fallback"
             \/ c_pc = "start" /\ ~c_in.ollama_available
       \/ c_pc = "start" /\ c_in.provider \in {"openai", "gemini"}
    /\ c_result' = ChartResult(FALSE, NULL,
                               IF c_in.provider = "auto" THEN "no_providers"
                               ELSE "unsupported")
    /\ c_pc' = "done"
    /\ UNCHANGED <<c_in, c_calls>>
    /\ UNCHANGED notChart

ChartIdle ==
    /\ c_pc = "off"
    /\ c_in = [provider |-> "auto", ollama_available |-> FALSE,
               anthropic_available |-> FALSE, api_key |-> FALSE]
    /\ c_calls = <<>>
    /\ c_result = [ChartResult(FALSE, NULL, NULL) EXCEPT !.status = "none"]

ChartStart ==
    /\ c_pc = "start"
    /\ c_in \in ChartInputs
    /\ c_calls = <<>>
    /\ c_result = [ChartResult(FALSE, NULL, NULL) EXCEPT !.status = "none"]

NextChart == ChartCallOllama \/ ChartCallClaude \/ ChartNoProvider

(***************************************************************************)
(* process_formulas (services/parser/main.py)                              *)
(***************************************************************************)

MAX_CONCURRENT_FORMULAS == 3

\* Longest list of formula images considered.
MaxFormulas == 4

\* The formula images of a page, as a list that may repeat an image.
FormulaImages == UNION {[1..n -> {"a.png", "b.png"}] : n \in 0..MaxFormulas}

\* call_latex_ocr: the LaTeX of the image, or None when the reply carries no
\* LaTeX or the request failed (lines 214-230).
call_latex_ocr(image, reply) ==
    IF reply = "latex" THEN (IF image = "a.png" THEN "a" ELSE "b") ELSE NULL

\* The tasks holding the semaphore.
InFlight(tasks) == {i \in DOMAIN tasks : tasks[i].state = "inflight"}

\* async with semaphore: a task enters while fewer than
\* MAX_CONCURRENT_FORMULAS hold it (lines 241-245).
SemaphoreFreeMutant(tasks) == TRUE

SemaphoreFree(tasks) == Cardinality(InFlight(tasks)) < MAX_CONCURRENT_FORMULAS

\* A task of the gather enters the semaphore and posts its image.
FormulaAcquire ==
    /\ f_pc = "gather"
    /\ SemaphoreFree(f_tasks)
    /\ \E i \in DOMAIN f_tasks :
          /\ f_tasks[i].state = "waiting"
          /\ f_tasks' = [f_tasks EXCEPT ![i].state = "inflight"]
    /\ UNCHANGED <<f_pc, f_images, f_results>>
    /\ UNCHANGED notFormulas

\* Its call_latex_ocr returns and the semaphore is released.
FormulaComplete ==
    /\ f_pc = "gather"
    /\ \E i \in InFlight(f_tasks), reply \in {"latex", "empty", "error"} :
          f_tasks' = [f_tasks EXCEPT
                         ![i] = [state |-> "done", reply |-> reply,
                                 result |-> call_latex_ocr(f_images[i], reply)]]
    /\ UNCHANGED <<f_pc, f_images, f_results>>
    /\ UNCHANGED notFormulas

\* asyncio.gather returns once every task is done, its results in the order
\* of the tasks; they are copied to latex_results (lines 248-257).
FormulaGather ==
    /\ f_pc = "gather"
    /\ \A i \in DOMAIN f_tasks : f_tasks[i].state = "done"
    /\ f_results' = [i \in DOMAIN f_tasks |-> f_tasks[i].result]
    /\ f_pc' = "returned"
    /\ UNCHANGED <<f_images, f_tasks>>
    /\ UNCHANGED notFormulas

FormulasIdle ==
    /\ f_pc = "off"
    /\ f_images = <<>>
    /\ f_tasks = <<>>
    /\ f_results = <<>>

FormulasStart ==
    /\ f_pc = "gather"
    /\ f_images \in FormulaImages
    /\ f_tasks = [i \in DOMAIN f_images |->
                     [state |-> "waiting", reply |-> "none", result |-> NULL]]
    /\ f_results = <<>>

NextFormulas == FormulaAcquire \/ FormulaComplete \/ FormulaGather

(***************************************************************************)
(* MinerUHttpClient.process_pdf (server/services/mineru_http_client.py)    *)
(***************************************************************************)

\* What the POST to /process can come to: no reply in time, no connection,
\* an error status, a 200 whose body is not JSON or not an object, or a 200
\* with a JSON object whose "success", "text" and "images" members are
\* present or not.
ServiceReplies ==
    {[kind |-> k, status |-> 0, success |-> "absent", text |-> "absent",
      images |-> "absent"] :
        k \in {"connect_timeout", "read_timeout", "connect_error"}}
    \cup {[kind |-> "status", status |-> s, success |-> "absent", text |-> "absent",
           images |-> "absent"] : s \in {400, 413, 500, 503}}
    \cup {[kind |-> k, status |-> 200, success |-> "absent", text |-> "absent",
           images |-> "absent"] : k \in {"bad_json", "not_object"}}
    \cup {[kind |-> "json", status |-> 200, success |-> b, text |-> t, images |-> n] :
            b \in {"absent", "true", "false"},
            t \in {"absent", "null", "", "text"},
            n \in {"absent", "null", "empty", "some"}}

\* The pair process_pdf returns for a reply (lines 84-147).  len() of a null
\* "text" or "images" raises inside the try and is caught by the last except.
process_pdf(reply) ==
    LET Failed(error) ==
            [status |-> "returned", flag |-> FALSE, success |-> NULL,
             markdown |-> NULL, charts |-> NULL, error |-> error]
    IN  CASE reply.kind \in {"connect_timeout", "read_timeout"} ->
                Failed("Service timeout")
          [] reply.kind = "status" -> Failed("HTTP status")
          [] reply.kind = "json" /\ reply.text # "null" /\ reply.images # "null" ->
                [status |-> "returned", flag |-> TRUE,
                 success |-> IF reply.success = "absent" THEN "true" ELSE reply.success,
                 markdown |-> IF reply.text = "absent" THEN "" ELSE reply.text,
                 charts |-> IF reply.images = "absent" THEN "empty" ELSE reply.images,
                 error |-> NULL]
          [] OTHER -> Failed("Service call failed")

\* await client.post(...): the service answers, or fails to (lines 101-106).
ClientPost ==
    /\ m_pc = "call"
    /\ m_reply' \in ServiceReplies
    /\ m_pc' = "replied"
    /\ UNCHANGED m_ret
    /\ UNCHANGED notClient

\* The rest of process_pdf: the reply is turned into the pair returned.
ClientReturn ==
    /\ m_pc = "replied"
    /\ m_ret' = process_pdf(m_reply)
    /\ m_pc' = "returned"
    /\ UNCHANGED m_reply
    /\ UNCHANGED notClient

ClientIdle ==
    /\ m_pc = "off"
    /\ m_reply = [kind |-> "none", status |-> 0, success |-> "absent",
                  text |-> "absent", images |-> "absent"]
    /\ m_ret = [status |-> "none", flag |-> FALSE, success |-> NULL,
                markdown |-> NULL, charts |-> NULL, error |-> NULL]

ClientStart ==
    /\ m_pc = "call"
    /\ m_reply = [kind |-> "none", status |-> 0, success |-> "absent",
                  text |-> "absent", images |-> "absent"]
    /\ m_ret = [status |-> "none", flag |-> FALSE, success |-> NULL,
                markdown |-> NULL, charts |-> NULL, error |-> NULL]

NextClient == ClientPost \/ ClientReturn

(***************************************************************************)
(* Claims about extract_text_from_document and detect_pdf_type             *)
(***************************************************************************)

LastCall == d_calls[Len(d_calls)]

\* Priority of an engine in the PDF branch; OCRmyPDF and Tesseract form the
\* legacy OCR group.
EngineRank(e) ==
    CASE e = "mineru" -> 1
      [] e = "parser" -> 2
      [] e \in {"ocrmypdf", "tesseract"} -> 3
      [] e = "pymupdf" -> 4
      [] OTHER -> 0

\* C1: for a PDF input the engines are invoked in the priority order MinerU
\* (only with use_mineru, and then first), Parser Service (only with use_ocr),
\* legacy OCR engines (only with use_ocr), PyMuPDF; no engine is invoked
\* twice, and once an engine has returned a result the call is over and no
\* further engine is invoked.
C1_EnginePriorityOrder ==
    RouteOf(d_in) = "pdf" =>
        /\ \A i, j \in DOMAIN d_calls :
              i < j => /\ EngineRank(d_calls[i].engine) <= EngineRank(d_calls[j].engine)
                       /\ d_calls[i].engine # d_calls[j].engine
                       /\ ~d_calls[i].ok
        /\ \A i \in DOMAIN d_calls :
              /\ EngineRank(d_calls[i].engine) >= 1
              /\ d_calls[i].engine = "mineru" => d_in.use_mineru
              /\ d_calls[i].engine \in {"parser", "ocrmypdf", "tesseract"} => d_in.use_ocr
        /\ (d_in.use_mineru /\ Len(d_calls) > 0) => d_calls[1].engine = "mineru"
        /\ (Len(d_calls) > 0 /\ LastCall.ok) =>
              d_pc = "done" /\ d_result.status = "ok" /\ d_result.engine = LastCall.engine

\* C1 witness: MinerU, the Parser Service and OCRmyPDF failed in turn and
\* Tesseract returned the result.
C1_Witness ==
    /\ RouteOf(d_in) = "pdf"
    /\ d_pc = "done"
    /\ Len(d_calls) = 4
    /\ d_calls[1].engine = "mineru"
    /\ d_calls[4].engine = "tesseract"
    /\ d_calls[4].ok

\* C2: on a PDF an error reaches the caller only after every engine on the
\* path taken has failed, the last of them PyMuPDF; a failure of MinerU, the
\* Parser Service, OCRmyPDF or Tesseract leaves the call running at the next
\* engine and raises nothing.
C2_ErrorOnlyAfterAllEnginesFailed ==
    RouteOf(d_in) = "pdf" =>
        /\ d_result.status = "raised" =>
              /\ Len(d_calls) > 0
              /\ \A i \in DOMAIN d_calls : ~d_calls[i].ok
              /\ LastCall.engine = "pymupdf"
        /\ (Len(d_calls) > 0 /\ ~LastCall.ok /\ LastCall.engine # "pymupdf") =>
              /\ d_result.status = "none"
              /\ d_pc \in {"parser", "detect", "pymupdf", "ocr_ocrmypdf",
                           "ocr_tesseract", "tess_first", "tess_then_ocrmypdf"}

\* C2 witness: all five engines were tried and failed, and the error was raised.
C2_Witness ==
    /\ RouteOf(d_in) = "pdf"
    /\ d_result.status = "raised"
    /\ Len(d_calls) = 5

\* C6: detect_pdf_type is the first-match-wins table over the first min(3, n)
\* pages: c > 8000 text; else c > 3000 and i > 2s mixed; else c > 3000 text;
\* else c > 500 and i > s mixed; else c > 500 text; else i > 0 scanned; else
\* unknown.
C6_DetectDecisionTable ==
    (d_pc = "detected" /\ d_in.doc.ok) =>
        LET n == Len(d_in.doc.pages)
            s == IF n < 3 THEN n ELSE 3
            c == SumChars(d_in.doc.pages, s)
            i == SumImages(d_in.doc.pages, s)
        IN  /\ c > 8000 => d_type = "text_based"
            /\ (c <= 8000 /\ c > 3000 /\ i > 2 * s) => d_type = "mixed"
            /\ (c <= 8000 /\ c > 3000 /\ i <= 2 * s) => d_type = "text_based"
            /\ (c <= 3000 /\ c > 500 /\ i > s) => d_type = "mixed"
            /\ (c <= 3000 /\ c > 500 /\ i <= s) => d_type = "text_based"
            /\ (c <= 500 /\ i > 0) => d_type = "scanned"
            /\ (c <= 500 /\ i = 0) => d_type = "unknown"

\* C6 witness: a four-page PDF whose three sampled pages hold little text and
\* more images than pages, classified mixed although its fourth page is heavy.
C6_Witness ==
    /\ d_pc = "detected"
    /\ Len(d_in.doc.pages) = 4
    /\ d_in.doc.pages[4].chars = 8000
    /\ SumChars(d_in.doc.pages, 3) = 501
    /\ SumImages(d_in.doc.pages, 3) = 4
    /\ d_type = "mixed"

\* C23: every image input (an image/* content type or an image filename
\* suffix) is routed to the image OCR engine, whatever the option flags.
C23_ImagesAlwaysRoutedToOCR ==
    (d_pc = "done" /\ IsImage(d_in)) =>
        /\ d_calls # <<>>
        /\ d_calls[1].engine = "image_ocr"

\* C24: for every supported format a successful call returns a pair
\* (text, image list), and the image list is empty unless the result came
\* from MinerU.
C24_SuccessReturnsTextAndImages ==
    (d_pc = "done" /\ d_result.status = "ok") =>
        /\ d_result.shape = "pair"
        /\ d_result.images # "empty" => d_result.engine = "mineru"

(***************************************************************************)
(* Claims about ImageProcessingAgent.process_document                      *)
(***************************************************************************)

\* C3: when the vision backend fails for some images (a non-200 reply or an
\* exception) and no progress callback raises, process_document returns
\* success=true with every extracted image present; each failed image keeps
\* null ocr_text, description, classification and confidence, each image
\* whose reply parsed as a JSON object is enriched, and every image after a
\* failed one is still sent to the backend.
C3_VisionFailureKeepsDocument ==
    (a_pc = "done" /\ a_mineru = "ok" /\ a_in.analyze /\ ~a_cbRaised) =>
        /\ a_result.status = "returned"
        /\ a_result.success
        /\ a_result.images = a_images
        /\ a_result.image_count = Len(a_images)
        /\ Len(a_vision) = Len(a_images)
        /\ \A k \in DOMAIN a_vision :
              /\ a_vision[k].image = k
              /\ a_vision[k].outcome \in {"http_error", "exception"} =>
                    a_result.images[k] = FreshImage
              /\ a_vision[k].outcome = "ok_json" =>
                    /\ a_result.images[k].ocr_text # NULL
                    /\ a_result.images[k].description # NULL
                    /\ a_result.images[k].classification # NULL

\* C3 witness: three images, the first answered with a non-200 status, the
\* second with a client exception, the third analysed; the document succeeds.
C3_Witness ==
    /\ a_pc = "done"
    /\ a_result.success
    /\ ~a_cbRaised
    /\ Len(a_vision) = 3
    /\ a_vision[1].outcome = "http_error"
    /\ a_vision[2].outcome = "exception"
    /\ a_vision[3].outcome = "ok_json"
    /\ a_result.images[1] = FreshImage
    /\ a_result.images[3].classification # NULL

\* C14: when the layout service reports failure, no image-analysis call is
\* made, and the result process_document returns has success = false, an
\* error, an empty image list and image_count 0; it does return (with the
\* layout error) whenever no progress callback raises.
C14_LayoutFailureStopsPipeline ==
    (a_pc = "done" /\ a_mineru = "fail") =>
        /\ a_vision = <<>>
        /\ a_result.status = "returned" =>
              /\ ~a_result.success
              /\ a_result.error # NULL
              /\ a_result.images = <<>>
              /\ a_result.image_count = 0
        /\ ~a_cbRaised =>
              /\ a_result.status = "returned"
              /\ a_result.error = "mineru"

C14_Witness ==
    /\ a_pc = "done"
    /\ a_mineru = "fail"
    /\ a_in.analyze
    /\ a_in.cb = "present"
    /\ ~a_cbRaised
    /\ a_result = AgentFailure("mineru")
    /\ a_vision = <<>>

\* C15: with a progress callback the events come in pipeline order: the
\* first is a pdf_extraction event, every image_analysis event comes after
\* the extraction-complete event, and on success the last event is the one
\* "complete" event.
C15_ProgressEventsInPipelineOrder ==
    a_in.cb # "none" =>
        /\ a_events # <<>> => a_events[1].step = "pdf_extraction"
        /\ \A i \in DOMAIN a_events :
              a_events[i].step = "image_analysis" =>
                  \E j \in 1..(i - 1) : a_events[j].kind = "extracted"
        /\ (a_pc = "done" /\ a_result.success) =>
              /\ a_events # <<>>
              /\ \A i \in DOMAIN a_events :
                    a_events[i].step = "complete" <=> i = Len(a_events)

C15_Witness ==
    /\ a_pc = "done"
    /\ a_result.success
    /\ a_in.cb = "present"
    /\ Len(a_images) = 2
    /\ Len(a_events) = 8
    /\ a_events[1].step = "pdf_extraction"
    /\ a_events[4].step = "image_analysis"
    /\ a_events[8].step = "complete"

\* C16: a progress callback that never returns does not stall the
\* pipeline: process_document still comes to its end.
C16_BlockingCallbackDoesNotStall == <>(a_pc = "done")

\* C29: process_document never raises: whatever the layout service, the
\* vision backend and the progress callback do (a raising callback
\* included), it ends by returning a ProcessingResult, with success = false
\* and the error text when processing failed.
C29_ProcessDocumentAlwaysReturns ==
    a_pc = "done" =>
        /\ a_result.status = "returned"
        /\ ~a_result.success => a_result.error # NULL

(***************************************************************************)
(* Claims about /extract-structured                                        *)
(***************************************************************************)

\* C4: /extract-structured never lets an exception leave the handler: every
\* request is answered with HTTP 200, and whenever something failed
\* (provider not offered, template not found, prompt rendering, timeout,
\* connection, HTTP status, empty reply, JSON that does not parse) the
\* answer has success = false, an error text, and the model and provider
\* of the request.
C4_ExtractNeverRaises ==
    x_pc = "responded" =>
        /\ x_resp.kind = "returned"
        /\ x_resp.status = 200
        /\ x_resp.model = x_req.model
        /\ x_resp.provider = x_req.provider
        /\ x_trace.failure # "none" =>
              /\ x_resp.success = FALSE
              /\ x_resp.error # NULL

C4_Witness ==
    /\ x_pc = "responded"
    /\ x_trace.failure = "timeout"
    /\ x_resp.kind = "returned"
    /\ x_resp.success = FALSE
    /\ x_resp.provider = "ollama"

\* C5: a request naming a provider that is not offered is answered with a
\* failure that names the provider, without any template lookup or provider
\* call; ollama is always offered, and openai / claude are offered exactly
\* when their API key is set (to a non-empty value).
C5_UnavailableProviderRejectedEarly ==
    /\ "ollama" \in AVAILABLE_PROVIDERS(x_env)
    /\ "openai" \in AVAILABLE_PROVIDERS(x_env) <=> Truthy(x_env.openai_key)
    /\ "claude" \in AVAILABLE_PROVIDERS(x_env) <=> Truthy(x_env.anthropic_key)
    /\ (x_pc = "responded" /\ x_req.provider \notin AVAILABLE_PROVIDERS(x_env)) =>
          /\ x_resp.kind = "returned"
          /\ x_resp.success = FALSE
          /\ x_resp.provider = x_req.provider
          /\ x_resp.error = "provider_not_available"
          /\ x_trace.lookups = 0
          /\ x_trace.completions = 0

C5_Witness ==
    /\ x_pc = "responded"
    /\ x_req.provider = "openai"
    /\ x_env.openai_key = ""
    /\ x_env.anthropic_key = "sk-key"
    /\ x_resp.error = "provider_not_available"
    /\ x_trace.lookups = 0

\* C12: the data of a successful /extract-structured response holds only
\* keys that are top-level variables of the template used; a reply with an
\* unknown top-level key is rejected.
C12_DataKeysAreTemplateVariables ==
    (x_pc = "responded" /\ x_resp.success /\ x_resp.data.kind = "object") =>
        DOMAIN x_resp.data.fields \subseteq TemplateVariables(x_trace.template)

\* C13: in the data of a successful /extract-structured response no
\* template field holds the string "N/A" or the empty string; a missing
\* value is null.
C13_NoPlaceholderStrings ==
    (x_pc = "responded" /\ x_resp.success /\ x_resp.data.kind = "object") =>
        \A k \in DOMAIN x_resp.data.fields \cap TemplateVariables(x_trace.template) :
            x_resp.data.fields[k] \notin {"N/A", ""}

\* C21: when the request supplies a max_text_length override, the document
\* text in the rendered prompt is cut to min(override, template's
\* max_text_length) characters.
C21_TextTruncatedToMinimum ==
    (/\ x_pc = "responded"
     /\ x_trace.completions = 1
     /\ x_req.overrides.max_text_length # NoOverride) =>
        x_trace.prompt_text =
            Min(TextLength, Min(x_req.overrides.max_text_length,
                                TemplateParameters.max_text_length))

\* C22: every template in the registry after loading has unique variable
\* names among siblings at every level and nests to a depth of at most 8; a
\* template file that violates this is not registered.
C22_RegisteredTemplatesValidated ==
    \A t \in x_env.registry :
        /\ x_env.files[t].unique_names
        /\ x_env.files[t].depth <= 8

\* C27: each effective parameter (temperature, max_tokens, max_text_length,
\* timeout) is the request's override whenever one is supplied, zero
\* included, and the template's value only when none is supplied.
C27_OverridesAlwaysWin ==
    (x_pc = "responded" /\ x_trace.completions = 1) =>
        \A k \in DOMAIN TemplateParameters :
            x_trace.params[k] = IF x_req.overrides[k] # NoOverride
                                THEN x_req.overrides[k] ELSE TemplateParameters[k]

(***************************************************************************)
(* Claims about image enrichment                                           *)
(***************************************************************************)

Processed(rec) == rec.ocr_processed /\ rec.embedding_generated

MadeNoCall(c) == c.vision = 0 /\ c.embedding = 0 /\ c.update = 0

\* C7: a run with force_refresh = false makes no vision, embedding or
\* update call for, and leaves unchanged, every image whose record it reads
\* back as already processed (both flags set); images whose earlier
\* processing failed are processed again, and a run with force_refresh =
\* true goes through the processing of every image it reaches.
C7_ProcessedImagesSkippedUnlessForced ==
    \A i \in DOMAIN e_records :
        /\ (/\ ~e_run.force_refresh
            /\ Processed(e_before[i])
            /\ e_calls[i].record_read = "ok")
              => /\ MadeNoCall(e_calls[i])
                 /\ e_calls[i].status = "already_processed"
                 /\ e_records[i] = e_before[i]
        /\ (e_run.force_refresh /\ e_calls[i].status # "none")
              => /\ e_calls[i].fetch = 1
                 /\ e_calls[i].status # "already_processed"

C7_Witness ==
    /\ e_run.number = 2
    /\ ~e_run.force_refresh
    /\ e_run.status = "complete"
    /\ \E i \in DOMAIN e_records :
          /\ Processed(e_before[i])
          /\ e_calls[i].status = "already_processed"
          /\ e_records[i] = e_before[i]

\* C7 as stated: once a run has been made, a further run with force_refresh
\* = false makes no vision, embedding or update call at all and leaves
\* every image record unchanged.
C7_SecondRunIsNoOp ==
    (e_run.number >= 2 /\ ~e_run.force_refresh) =>
        /\ \A i \in DOMAIN e_records : MadeNoCall(e_calls[i])
        /\ e_records = e_before

\* C17: while the images of a source are enriched, the vision calls in
\* flight never exceed the limit: the calls are made one at a time, so at
\* most one image is being processed and every later image waits for it.
C17_VisionCallsWithinLimit ==
    /\ Cardinality(e_inflight) <= 1
    /\ \A i \in e_inflight : e_idx = i + 1

C17_Witness ==
    /\ e_pc = "loop"
    /\ e_inflight = {1}
    /\ e_idx = 2
    /\ Len(e_records) = 2
    /\ e_calls[2].status = "none"

\* C18: an image is reported failed for a transient vision error
\* (connection failure or 5xx) only after the call was tried three times,
\* and a reply that fails JSON parsing is not retried.
C18_TransientVisionErrorsRetried ==
    \A i \in DOMAIN e_calls :
        /\ e_calls[i].failed_at = "vision_transient" => e_calls[i].vision = 3
        /\ e_calls[i].failed_at = "vision_parse" => e_calls[i].vision = 1

\* C19: after an enrichment run every image whose enrichment failed has the
\* failure recorded on its record (enrichment_error), its enrichment fields
\* being null.
C19_FailureRecordedOnArtifact ==
    \A i \in DOMAIN e_records :
        (e_run.status = "complete" /\ e_calls[i].status = "error") =>
            e_records[i].enrichment_error # NULL

\* C20: a record is marked embedding_generated only when a vector of the
\* embedding model's dimension was stored with it; for a vector of another
\* dimension, or none, OCR and classification are stored without a vector
\* and with embedding_generated = false.
C20_EmbeddingFlagMeansVector ==
    \A i \in DOMAIN e_records :
        /\ e_records[i].embedding_generated => e_records[i].embedding = "dim_ok"
        /\ e_records[i].embedding # "dim_ok" => e_records[i].embedding = NULL

C8_ImageCountsLessSkipped ==
    (p_pc = "responded" /\ p_resp.kind = "returned") =>
        /\ Len(p_resp.images) = p_resp.metadata.images_extracted
        /\ p_resp.metadata.images_extracted + p_counts.skipped
              = p_resp.metadata.images_embedded + p_resp.metadata.images_detected
        /\ p_resp.metadata.images_extracted
              <= p_resp.metadata.images_embedded + p_resp.metadata.images_detected

C8_Witness ==
    /\ p_pc = "responded"
    /\ p_resp.kind = "returned"
    /\ p_counts.skipped = 0
    /\ p_resp.metadata.images_embedded = 1
    /\ p_resp.metadata.images_detected = 2
    /\ Len(p_resp.images) = 3

\* C8 as stated: in every /process response images_extracted =
\* images_embedded + images_detected and len(images) = images_extracted.
C8_ImageCountsAddUp ==
    (p_pc = "responded" /\ p_resp.kind = "returned") =>
        /\ p_resp.metadata.images_extracted
              = p_resp.metadata.images_embedded + p_resp.metadata.images_detected
        /\ Len(p_resp.images) = p_resp.metadata.images_extracted

StoragePathOf(img) ==
    GenerateStoragePath("source", img.page_number, img.image_index, img.mime_type)

\* C10: any two images of one /process response (they differ in page
\* number, image index or origin) have different (page_number, image_index)
\* pairs and different storage paths, so that uploading one never
\* overwrites the blob of the other.
C10_DistinctImagesDistinctKeys ==
    (p_pc = "responded" /\ p_resp.kind = "returned") =>
        \A i, j \in DOMAIN p_resp.images :
            i # j =>
                /\ <<p_resp.images[i].page_number, p_resp.images[i].image_index>>
                      # <<p_resp.images[j].page_number, p_resp.images[j].image_index>>
                /\ StoragePathOf(p_resp.images[i]) # StoragePathOf(p_resp.images[j])

(***************************************************************************)
(* Claims about upload_image                                               *)
(***************************************************************************)

\* C9: after any sequence of upload_image calls the table holds at most one
\* row per (source_id, page_number, image_index); uploading again under a
\* stored key adds no row.
C9_OneRecordPerKey ==
    \A r1, r2 \in s_records :
        (/\ r1.source_id = r2.source_id
         /\ r1.page_number = r2.page_number
         /\ r1.image_index = r2.image_index) => r1 = r2

\* C11: upload_image writes the blob before the row, and a call that fails
\* at the row insert leaves no blob without a row: the blob it has just
\* written is deleted again before the error reaches the caller.
C11_FailedInsertLeavesNoOrphanBlob ==
    (s_last.result = "raised" /\ s_last.outcome \in {"insert_api_error", "insert_no_data"}) =>
        \A b \in s_blobs :
            b.path = GenerateStoragePath(s_last.args.source_id, s_last.args.page_number,
                                         s_last.args.image_index, s_last.args.mime_type)
                => \E r \in s_records : r.storage_path = b.path

(***************************************************************************)
(* Claims about extract_chart_data, process_formulas and the MinerU client *)
(***************************************************************************)

\* C25: with provider AUTO the local provider is called first whenever it is
\* available and the cloud provider only when local is unavailable or its
\* extraction reported failure; a successful result names the provider that
\* produced it; with provider LOCAL the cloud provider is never called.
C25_LocalFirstCloudOnFallback ==
    /\ (c_pc = "done" /\ c_in.provider = "auto" /\ c_in.ollama_available) =>
          /\ c_calls # <<>>
          /\ c_calls[1].provider = "ollama"
    /\ \A i \in DOMAIN c_calls :
          (c_in.provider = "auto" /\ c_calls[i].provider = "claude") =>
              \/ i = 1 /\ ~c_in.ollama_available
              \/ /\ i = 2
                 /\ c_calls[1].provider = "ollama"
                 /\ c_calls[1].outcome \in {"http_error", "timeout", "exception"}
    /\ (c_pc = "done" /\ c_result.success) =>
          /\ c_calls # <<>>
          /\ c_result.provider_used = c_calls[Len(c_calls)].provider
          /\ c_calls[Len(c_calls)].outcome \in {"ok", "parse_failed"}
    /\ c_in.provider = "local" =>
          \A i \in DOMAIN c_calls : c_calls[i].provider # "claude"

\* AUTO, local available but timing out, the cloud result returned.
C25_Witness ==
    /\ c_pc = "done"
    /\ c_in.provider = "auto"
    /\ c_in.ollama_available
    /\ c_calls = <<[provider |-> "ollama", outcome |-> "timeout"],
                   [provider |-> "claude", outcome |-> "ok"]>>
    /\ c_result.success
    /\ c_result.provider_used = "claude"

\* C26: in process_formulas at most MAX_CONCURRENT_FORMULAS requests are in
\* flight at any time, every image is eventually processed, and the result
\* list has one entry per image, in input order, None for each failed
\* conversion, whatever happened to the other conversions.
C26_FormulasBoundedOrderedComplete ==
    /\ [](/\ Cardinality(InFlight(f_tasks)) <= MAX_CONCURRENT_FORMULAS
          /\ f_pc = "returned" =>
                /\ Len(f_results) = Len(f_images)
                /\ \A i \in DOMAIN f_images :
                      /\ f_tasks[i].state = "done"
                      /\ f_results[i] =
                            IF f_tasks[i].reply # "latex" THEN NULL
                            ELSE IF f_images[i] = "a.png" THEN "a" ELSE "b")
    /\ <>(f_pc = "returned")

\* Four images, more than the semaphore admits at once; the first and the
\* last conversion failed, the two between them did not.
C26_Witness ==
    /\ f_pc = "returned"
    /\ f_images = <<"a.png", "b.png", "a.png", "b.png">>
    /\ f_tasks[1].reply = "error"
    /\ f_tasks[4].reply = "empty"
    /\ f_results = <<NULL, "b", "a", NULL>>

\* C28: the flag process_pdf returns agrees with what the service reported:
\* with (True, result), result["success"] is true; every timeout, error
\* status or other failure gives (False, {error}) and nothing is raised.
C28_SuccessFlagAgreesWithService ==
    m_pc = "returned" =>
        /\ m_ret.status = "returned"
        /\ m_ret.flag => m_ret.success = "true"
        /\ m_reply.kind # "json" => (~m_ret.flag /\ m_ret.error # NULL)

(***************************************************************************)
(* Specifications: one per component, the other components idle            *)
(***************************************************************************)

InitDoc ==
    DocStart /\ AgentIdle /\ ExtractIdle /\ EnrichIdle /\ ProcessIdle /\ StoreIdle
    /\ ChartIdle /\ FormulasIdle /\ ClientIdle
SpecDoc == InitDoc /\ [][NextDoc]_vars

InitDetect ==
    DetectStart /\ AgentIdle /\ ExtractIdle /\ EnrichIdle /\ ProcessIdle /\ StoreIdle
    /\ ChartIdle /\ FormulasIdle /\ ClientIdle
SpecDetect == InitDetect /\ [][NextDetect]_vars

InitAgent ==
    AgentStart /\ DocIdle /\ ExtractIdle /\ EnrichIdle /\ ProcessIdle /\ StoreIdle
    /\ ChartIdle /\ FormulasIdle /\ ClientIdle
SpecAgent == InitAgent /\ [][NextAgent]_vars
\* The event loop goes on running process_document as long as it can.
FairSpecAgent == SpecAgent /\ WF_vars(NextAgent)

InitExtract ==
    ExtractStart /\ DocIdle /\ AgentIdle /\ EnrichIdle /\ ProcessIdle /\ StoreIdle
    /\ ChartIdle /\ FormulasIdle /\ ClientIdle
SpecExtract == InitExtract /\ [][NextExtract]_vars

InitEnrich ==
    EnrichStart /\ DocIdle /\ AgentIdle /\ ExtractIdle /\ ProcessIdle /\ StoreIdle
    /\ ChartIdle /\ FormulasIdle /\ ClientIdle
SpecEnrich == InitEnrich /\ [][NextEnrich]_vars

InitProcess ==
    ProcessStart /\ DocIdle /\ AgentIdle /\ ExtractIdle /\ EnrichIdle /\ StoreIdle
    /\ ChartIdle /\ FormulasIdle /\ ClientIdle
SpecProcess == InitProcess /\ [][NextProcess]_vars

InitStore ==
    StoreStart /\ DocIdle /\ AgentIdle /\ ExtractIdle /\ EnrichIdle /\ ProcessIdle
    /\ ChartIdle /\ FormulasIdle /\ ClientIdle
SpecStore == InitStore /\ [][NextStore]_vars

InitChart ==
    ChartStart /\ DocIdle /\ AgentIdle /\ ExtractIdle /\ EnrichIdle /\ ProcessIdle
    /\ StoreIdle /\ FormulasIdle /\ ClientIdle
SpecChart == InitChart /\ [][NextChart]_vars

InitFormulas ==
    FormulasStart /\ DocIdle /\ AgentIdle /\ ExtractIdle /\ EnrichIdle /\ ProcessIdle
    /\ StoreIdle /\ ChartIdle /\ ClientIdle
SpecFormulas == InitFormulas /\ [][NextFormulas]_vars
\* The event loop runs every task that can run, and each request ends
\* (it has a timeout).
FairSpecFormulas == SpecFormulas /\ WF_vars(NextFormulas)

InitClient ==
    ClientStart /\ DocIdle /\ AgentIdle /\ ExtractIdle /\ EnrichIdle /\ ProcessIdle
    /\ StoreIdle /\ ChartIdle /\ FormulasIdle
SpecClient == InitClient /\ [][NextClient]_vars

====
